---- MODULE Spec2Model ----
(***************************************************************************)
(* Poetry Assistant (itzmaniss/DSA1-midterms): the linear-probing hash     *)
(* table of hashTable.js, the index builder of buildAssistant.js and the   *)
(* query processor of index.js with the rankers of rhymeScorer.js.         *)
(*                                                                         *)
(* A JavaScript string is modelled as a sequence of one-character strings, *)
(* so that "cat" is <<"c","a","t">> and string equality is sequence        *)
(* equality.                                                               *)
(***************************************************************************)
EXTENDS Integers, Sequences, FiniteSets, TLC

VARIABLES
  T,                  \* a HashTable driven directly through insertHash/searchHash
  inserted,           \* history: key -> words whose insertHash returned true, in call order
  op,                 \* history: the last call on T and what it returned
  wordlistText,       \* the lines handed to buildPoetryAssistant
  suffixLength,       \* the suffix length threaded through build and query
  phase,              \* "start" before build, "built" after buildPoetryAssistant returned
  tables,             \* the bundle buildPoetryAssistant returned (tables are shared, mutable)
  atBuild,            \* history: the value of tables at the moment build returned
  buildLog,           \* history: what build's insertHash calls returned
  queries,            \* the query calls in flight or returned
  call                \* one call of scoreRhyme or computePhoneticKey: arguments, results

vars == <<T, inserted, op, wordlistText, suffixLength, phase, tables, atBuild,
          buildLog, queries, call>>

tableVars == <<T, inserted, op>>
assistantVars == <<wordlistText, suffixLength, phase, tables, atBuild, buildLog, queries>>
callVars == <<call>>

(***************************************************************************)
(* Bounds of the model.                                                    *)
(***************************************************************************)
\* capacity of the directly driven table T
TableSize == 3
\* number of insertHash calls made on T
MaxInserts == 4
\* searchHash on T is not called once T.probeSteps has reached this
MaxProbeSteps == 3
\* capacity of the two tables buildPoetryAssistant creates (6577 in the source)
tableSize == 7
\* number of query calls made on one built bundle
MaxQueries == 2

(***************************************************************************)
(* Characters and strings.                                                 *)
(***************************************************************************)
Lower == <<"a","b","c","d","e","f","g","h","i","j","k","l","m",
           "n","o","p","q","r","s","t","u","v","w","x","y","z">>
Upper == <<"A","B","C","D","E","F","G","H","I","J","K","L","M",
           "N","O","P","Q","R","S","T","U","V","W","X","Y","Z">>

Range(s) == {s[i] : i \in 1..Len(s)}

LowerSet == Range(Lower)
UpperSet == Range(Upper)

\* position of a letter in the alphabet, 1..26
alphaPosTable ==
  [c \in LowerSet \cup UpperSet |->
     IF c \in LowerSet THEN CHOOSE i \in 1..26 : Lower[i] = c
     ELSE CHOOSE i \in 1..26 : Upper[i] = c]
AlphaPos(c) == alphaPosTable[c]

\* String.prototype.charCodeAt for one character: ASCII
charCodeAt(c) ==
  IF c \in LowerSet THEN 96 + AlphaPos(c)
  ELSE IF c \in UpperSet THEN 64 + AlphaPos(c)
  ELSE IF c = " " THEN 32
  ELSE IF c = "-" THEN 45
  ELSE 49

\* String.prototype.toLowerCase, one character and a whole string
lowerChar(c) == IF c \in UpperSet THEN Lower[AlphaPos(c)] ELSE c
toLowerCase(s) == [i \in 1..Len(s) |-> lowerChar(s[i])]

Min(a, b) == IF a < b THEN a ELSE b

(***************************************************************************)
(* hashTable.js                                                            *)
(***************************************************************************)
\* an empty slot of T.table (null in the source)
null == [bound |-> FALSE, suffix |-> <<>>, words |-> <<>>]

\* new HashTable(size)
HashTable(size) ==
  [size |-> size, table |-> [i \in 0..(size - 1) |-> null], count |-> 0, probeSteps |-> 0]

\* a hash that is reduced modulo tableSize + 1
RECURSIVE hashLoopInclusive(_, _, _, _)
hashLoopInclusive(string, tblSize, i, hash) ==
  IF i <= Len(string)
    THEN hashLoopInclusive(string, tblSize, i + 1,
                           (hash * 31 + charCodeAt(string[i])) % (tblSize + 1))
    ELSE hash

RECURSIVE hashLoop(_, _, _, _)
hashLoop(string, tblSize, i, hash) ==
  IF i <= Len(string)
    THEN hashLoop(string, tblSize, i + 1, (hash * 31 + charCodeAt(string[i])) % tblSize)
    ELSE hash

computeHash(string, tblSize) == hashLoop(string, tblSize, 1, 0)

\* insertHash that never recognises a key it has already bound
RECURSIVE insertLoopNoMatch(_, _, _, _, _)
insertLoopNoMatch(Tb, suffix, word, index, attempts) ==
  IF attempts < Tb.size
    THEN IF Tb.table[index] = null
           THEN [tbl |-> [Tb EXCEPT !.table[index] =
                                     [bound |-> TRUE, suffix |-> suffix, words |-> <<word>>],
                                  !.count = @ + 1],
                 ret |-> TRUE]
         ELSE insertLoopNoMatch(Tb, suffix, word, (index + 1) % Tb.size, attempts + 1)
    ELSE [tbl |-> Tb, ret |-> FALSE]

\* insertHash that takes over the first bucket it finds bound to another key
insertLoopOverwrite(Tb, suffix, word, index, attempts) ==
  IF Tb.table[index] = null
    THEN [tbl |-> [Tb EXCEPT !.table[index] =
                              [bound |-> TRUE, suffix |-> suffix, words |-> <<word>>],
                           !.count = @ + 1],
          ret |-> TRUE]
  ELSE IF Tb.table[index].suffix = suffix
    THEN [tbl |-> [Tb EXCEPT !.table[index].words = Append(@, word)], ret |-> TRUE]
  ELSE [tbl |-> [Tb EXCEPT !.table[index] =
                            [bound |-> TRUE, suffix |-> suffix, words |-> <<word>>]],
        ret |-> TRUE]

\* insertHash that gives up one bucket early (attempts < T.size - 1)
RECURSIVE insertLoopShort(_, _, _, _, _)
insertLoopShort(Tb, suffix, word, index, attempts) ==
  IF attempts < Tb.size - 1
    THEN IF Tb.table[index] = null
           THEN [tbl |-> [Tb EXCEPT !.table[index] =
                                     [bound |-> TRUE, suffix |-> suffix, words |-> <<word>>],
                                  !.count = @ + 1],
                 ret |-> TRUE]
         ELSE IF Tb.table[index].suffix = suffix
           THEN [tbl |-> [Tb EXCEPT !.table[index].words = Append(@, word)],
                 ret |-> TRUE]
         ELSE insertLoopShort(Tb, suffix, word, (index + 1) % Tb.size, attempts + 1)
    ELSE [tbl |-> Tb, ret |-> FALSE]

\* insertHash that probes every second bucket
RECURSIVE insertLoopStride(_, _, _, _, _)
insertLoopStride(Tb, suffix, word, index, attempts) ==
  IF attempts < Tb.size
    THEN IF Tb.table[index] = null
           THEN [tbl |-> [Tb EXCEPT !.table[index] =
                                     [bound |-> TRUE, suffix |-> suffix, words |-> <<word>>],
                                  !.count = @ + 1],
                 ret |-> TRUE]
         ELSE IF Tb.table[index].suffix = suffix
           THEN [tbl |-> [Tb EXCEPT !.table[index].words = Append(@, word)],
                 ret |-> TRUE]
         ELSE insertLoopStride(Tb, suffix, word, (index + 2) % Tb.size, attempts + 1)
    ELSE [tbl |-> Tb, ret |-> FALSE]

\* insertHash that counts every accepted word, not every bound bucket
RECURSIVE insertLoopCountWords(_, _, _, _, _)
insertLoopCountWords(Tb, suffix, word, index, attempts) ==
  IF attempts < Tb.size
    THEN IF Tb.table[index] = null
           THEN [tbl |-> [Tb EXCEPT !.table[index] =
                                     [bound |-> TRUE, suffix |-> suffix, words |-> <<word>>],
                                  !.count = @ + 1],
                 ret |-> TRUE]
         ELSE IF Tb.table[index].suffix = suffix
           THEN [tbl |-> [Tb EXCEPT !.table[index].words = Append(@, word),
                                  !.count = @ + 1],
                 ret |-> TRUE]
         ELSE insertLoopCountWords(Tb, suffix, word, (index + 1) % Tb.size, attempts + 1)
    ELSE [tbl |-> Tb, ret |-> FALSE]

\* the while loop of insertHash; the result is the table after the call and the
\* value returned
RECURSIVE insertLoop(_, _, _, _, _)
insertLoop(Tb, suffix, word, index, attempts) ==
  IF attempts < Tb.size
    THEN IF Tb.table[index] = null
           THEN [tbl |-> [Tb EXCEPT !.table[index] =
                                     [bound |-> TRUE, suffix |-> suffix, words |-> <<word>>],
                                  !.count = @ + 1],
                 ret |-> TRUE]
         ELSE IF Tb.table[index].suffix = suffix
           THEN [tbl |-> [Tb EXCEPT !.table[index].words = Append(@, word)],
                 ret |-> TRUE]
         ELSE insertLoop(Tb, suffix, word, (index + 1) % Tb.size, attempts + 1)
    ELSE [tbl |-> Tb, ret |-> FALSE]

insertHash(Tb, suffix, word) ==
  insertLoop(Tb, suffix, word, computeHash(suffix, Tb.size), 0)

\* searchHash that looks at the start bucket only
searchLoopNoProbe(Tb, suffix, index, attempts) ==
  IF Tb.table[index] # null /\ Tb.table[index].suffix = suffix
    THEN [tbl |-> Tb, ret |-> Tb.table[index].words]
    ELSE [tbl |-> Tb, ret |-> <<>>]

\* the while loop of searchHash; the result is the table after the call (its
\* probeSteps counter moves) and the list returned
RECURSIVE searchLoop(_, _, _, _)
searchLoop(Tb, suffix, index, attempts) ==
  IF attempts < Tb.size
    THEN IF Tb.table[index] = null
           THEN [tbl |-> Tb, ret |-> <<>>]
         ELSE IF Tb.table[index].suffix = suffix
           THEN [tbl |-> Tb, ret |-> Tb.table[index].words]
         ELSE searchLoop([Tb EXCEPT !.probeSteps = @ + 1], suffix,
                         (index + 1) % Tb.size, attempts + 1)
    ELSE [tbl |-> Tb, ret |-> <<>>]

searchHash(Tb, suffix) == searchLoop(Tb, suffix, computeHash(suffix, Tb.size), 0)

(***************************************************************************)
(* utils.js (its text is kept in psudocode.md)                             *)
(***************************************************************************)
\* word.slice(-length) for 0 <= length < word.length: slice(-0) is slice(0),
\* the whole word
lastChars(word, length) ==
  IF length = 0 THEN word ELSE SubSeq(word, Len(word) - length + 1, Len(word))

extractSuffix(word, length) ==
  LET w == toLowerCase(word) IN
    IF Len(w) <= length THEN w ELSE lastChars(w, length)

\* /^[a-zA-Z]+$/.test(word)
isAlphabetic(word) ==
  Len(word) > 0 /\ \A i \in 1..Len(word) : word[i] \in (LowerSet \cup UpperSet)

\* String.prototype.trim; the only whitespace of the model's lines is the space
RECURSIVE trimStart(_)
trimStart(s) == IF Len(s) > 0 /\ Head(s) = " " THEN trimStart(Tail(s)) ELSE s

RECURSIVE trimEnd(_)
trimEnd(s) ==
  IF Len(s) > 0 /\ s[Len(s)] = " " THEN trimEnd(SubSeq(s, 1, Len(s) - 1)) ELSE s

trim(s) == trimEnd(trimStart(s))

vowels == {"a", "e", "i", "o", "u"}

\* the for loop of countSyllables from index i (1-based) on
RECURSIVE syllableLoop(_, _, _, _)
syllableLoop(word, i, syllables, previousWasVowel) ==
  IF i > Len(word) THEN syllables
  ELSE LET c == word[i]
           isVowel == IF c = "y" THEN (i > 1 /\ ~previousWasVowel) ELSE c \in vowels
       IN syllableLoop(word, i + 1,
                       IF isVowel /\ ~previousWasVowel THEN syllables + 1 ELSE syllables,
                       isVowel)

countSyllables(word) ==
  LET w == toLowerCase(word)
      n == Len(w)
      counted == syllableLoop(w, 1, 0, FALSE)
      silentE == n >= 3 /\ w[n] = "e" /\ w[n - 1] \notin vowels /\ w[n - 1] # "y"
      adjusted == IF silentE THEN counted - 1 ELSE counted
  IN IF n = 0 THEN 0 ELSE IF adjusted < 1 THEN 1 ELSE adjusted

\* does pattern occur in s at index i (1-based)
matchesAt(s, pattern, i) ==
  /\ i + Len(pattern) - 1 <= Len(s)
  /\ \A j \in 1..Len(pattern) : s[i + j - 1] = pattern[j]

\* String.prototype.replaceAll(pattern, replacement) from index i on: leftmost
\* non-overlapping occurrences
RECURSIVE replaceFrom(_, _, _, _)
replaceFrom(s, pattern, replacement, i) ==
  IF i > Len(s) THEN <<>>
  ELSE IF matchesAt(s, pattern, i)
    THEN replacement \o replaceFrom(s, pattern, replacement, i + Len(pattern))
    ELSE <<s[i]>> \o replaceFrom(s, pattern, replacement, i + 1)

replaceAll(s, pattern, replacement) == replaceFrom(s, pattern, replacement, 1)

\* first index >= i whose character is not a vowel
RECURSIVE skipVowels(_, _)
skipVowels(word, i) ==
  IF i <= Len(word) /\ word[i] \in vowels THEN skipVowels(word, i + 1) ELSE i

\* first index >= i whose character is not c
RECURSIVE skipRepeats(_, _, _)
skipRepeats(word, i, c) ==
  IF i <= Len(word) /\ word[i] = c THEN skipRepeats(word, i + 1, c) ELSE i

\* a scan that copies the first vowel of a run instead of writing V
RECURSIVE keyLoopKeepVowel(_, _)
keyLoopKeepVowel(word, i) ==
  IF i > Len(word) THEN <<>>
  ELSE LET c == word[i] IN
    IF c \in vowels
      THEN <<c>> \o keyLoopKeepVowel(word, skipVowels(word, i + 1))
    ELSE IF c = "c"
      THEN (IF i + 1 <= Len(word) /\ word[i + 1] \in {"e", "i"} THEN <<"S">> ELSE <<"K">>)
           \o keyLoopKeepVowel(word, i + 1)
    ELSE <<c>> \o keyLoopKeepVowel(word, skipRepeats(word, i + 1, c))

\* the while loop of computePhoneticKey from index i (1-based) on
RECURSIVE keyLoop(_, _)
keyLoop(word, i) ==
  IF i > Len(word) THEN <<>>
  ELSE LET c == word[i] IN
    IF c \in vowels
      THEN <<"V">> \o keyLoop(word, skipVowels(word, i + 1))
    ELSE IF c = "c"
      THEN (IF i + 1 <= Len(word) /\ word[i + 1] \in {"e", "i"} THEN <<"S">> ELSE <<"K">>)
           \o keyLoop(word, i + 1)
    ELSE <<c>> \o keyLoop(word, skipRepeats(word, i + 1, c))

\* the replaceAll calls with kn before gh, then the scan
computePhoneticKeyKnFirst(word) ==
  LET w0 == toLowerCase(word)
      w1 == replaceAll(w0, <<"o","u","g","h">>, <<"O">>)
      w2 == replaceAll(w1, <<"a","u","g","h">>, <<"A","F">>)
      w3 == replaceAll(w2, <<"t","i","o","n">>, <<"S","H","U","N">>)
      w4 == replaceAll(w3, <<"s","i","o","n">>, <<"Z","H","U","N">>)
      w5 == replaceAll(w4, <<"p","h">>, <<"F">>)
      w6 == replaceAll(w5, <<"k","n">>, <<"N">>)
      w7 == replaceAll(w6, <<"c","k">>, <<"K">>)
      w8 == replaceAll(w7, <<"w","h">>, <<"W">>)
      w9 == replaceAll(w8, <<"w","r">>, <<"R">>)
      w10 == replaceAll(w9, <<"g","h">>, <<>>)
      w11 == replaceAll(w10, <<"g","n">>, <<"N">>)
      w12 == replaceAll(w11, <<"m","b">>, <<"M">>)
      steps == <<w0, w1, w2, w3, w4, w5, w6, w7, w8, w9, w10, w11, w12>>
  IN keyLoop(steps[13], 1)

\* the twelve replaceAll calls in order, each on the result of the one before,
\* then the scan
computePhoneticKey(word) ==
  LET w0 == toLowerCase(word)
      w1 == replaceAll(w0, <<"o","u","g","h">>, <<"O">>)
      w2 == replaceAll(w1, <<"a","u","g","h">>, <<"A","F">>)
      w3 == replaceAll(w2, <<"t","i","o","n">>, <<"S","H","U","N">>)
      w4 == replaceAll(w3, <<"s","i","o","n">>, <<"Z","H","U","N">>)
      w5 == replaceAll(w4, <<"p","h">>, <<"F">>)
      w6 == replaceAll(w5, <<"g","h">>, <<>>)
      w7 == replaceAll(w6, <<"c","k">>, <<"K">>)
      w8 == replaceAll(w7, <<"w","h">>, <<"W">>)
      w9 == replaceAll(w8, <<"w","r">>, <<"R">>)
      w10 == replaceAll(w9, <<"k","n">>, <<"N">>)
      w11 == replaceAll(w10, <<"g","n">>, <<"N">>)
      w12 == replaceAll(w11, <<"m","b">>, <<"M">>)
      steps == <<w0, w1, w2, w3, w4, w5, w6, w7, w8, w9, w10, w11, w12>>
  IN keyLoop(steps[13], 1)

(***************************************************************************)
(* rhymeScorer.js                                                          *)
(***************************************************************************)
\* the while loop of scoreRhyme: the number of matching trailing characters
RECURSIVE matchingChars(_, _, _, _)
matchingChars(word1, word2, i, j) ==
  IF i >= 1 /\ j >= 1 /\ word1[i] = word2[j]
    THEN 1 + matchingChars(word1, word2, i - 1, j - 1)
    ELSE 0

\* word[0]: undefined for the empty string
firstChar(word) == IF Len(word) = 0 THEN "undefined" ELSE word[1]

abs(x) == IF x < 0 THEN 0 - x ELSE x

\* the length bonus of scoreRhyme for a length difference
lengthBonus(lengthDiff) ==
  IF lengthDiff = 0 THEN 20
  ELSE IF lengthDiff = 1 THEN 15
  ELSE IF lengthDiff = 2 THEN 10
  ELSE IF lengthDiff <= 4 THEN 5
  ELSE 0

\* a score without the test for identical words
scoreRhymeNoIdentity(word1, word2) ==
  LET m == matchingChars(word1, word2, Len(word1), Len(word2)) IN
    (IF m * 15 > 60 THEN 60 ELSE m * 15)
      + (IF firstChar(word1) # firstChar(word2) THEN 20 ELSE 0)
      + lengthBonus(abs(Len(word1) - Len(word2)))

\* a score whose length difference is word1.length - word2.length, without
\* Math.abs
scoreRhymeNoAbs(word1, word2) ==
  IF word1 = word2 THEN 0
  ELSE LET m == matchingChars(word1, word2, Len(word1), Len(word2)) IN
    (IF m * 15 > 60 THEN 60 ELSE m * 15)
      + (IF firstChar(word1) # firstChar(word2) THEN 20 ELSE 0)
      + lengthBonus(Len(word1) - Len(word2))

\* a score without the cap of 60 on the points for matching characters
scoreRhymeUncapped(word1, word2) ==
  IF word1 = word2 THEN 0
  ELSE matchingChars(word1, word2, Len(word1), Len(word2)) * 15
      + (IF firstChar(word1) # firstChar(word2) THEN 20 ELSE 0)
      + lengthBonus(abs(Len(word1) - Len(word2)))

scoreRhyme(word1, word2) ==
  IF word1 = word2 THEN 0
  ELSE LET m == matchingChars(word1, word2, Len(word1), Len(word2))
           charScore == IF m * 15 > 60 THEN 60 ELSE m * 15
           letterBonus == IF firstChar(word1) # firstChar(word2) THEN 20 ELSE 0
           lengthDiff == abs(Len(word1) - Len(word2))
       IN charScore + letterBonus + lengthBonus(lengthDiff)

\* the scoring loop of findRhymes and phoneticSearch: the candidates whose
\* score against inputWord is positive, in candidate order
scoreCandidates(inputWord, candidates) ==
  LET scored == [i \in 1..Len(candidates) |->
                   [word |-> candidates[i], score |-> scoreRhyme(inputWord, candidates[i])]]
      positive(x) == x.score > 0
  IN SelectSeq(scored, positive)

\* a sort by descending score that puts later elements first among equal scores
sortByScoreUnstable(scoredRhymes) ==
  LET n == Len(scoredRhymes)
      rank == [i \in 1..n |->
                 1 + Cardinality({j \in 1..n : scoredRhymes[j].score - scoredRhymes[i].score > 0})
                   + Cardinality({j \in (i + 1)..n : scoredRhymes[j].score = scoredRhymes[i].score})]
  IN [p \in 1..n |-> scoredRhymes[CHOOSE i \in 1..n : rank[i] = p]]

\* scoredRhymes.sort((a, b) => b.score - a.score): Array.prototype.sort is
\* stable, so element i goes after every element with a higher score and after
\* the elements before it with the same score
sortByScore(scoredRhymes) ==
  LET n == Len(scoredRhymes)
      rank == [i \in 1..n |->
                 1 + Cardinality({j \in 1..n : scoredRhymes[j].score - scoredRhymes[i].score > 0})
                   + Cardinality({j \in 1..(i - 1) : scoredRhymes[j].score = scoredRhymes[i].score})]
  IN [p \in 1..n |-> scoredRhymes[CHOOSE i \in 1..n : rank[i] = p]]

\* the ranked list returned whole, without the cap
topWordsUncapped(scoredRhymes, maxResults) ==
  [i \in 1..Len(scoredRhymes) |-> scoredRhymes[i].word]

\* the last loop of findRhymes and phoneticSearch: the first
\* min(maxResults, length) words
topWords(scoredRhymes, maxResults) ==
  [i \in 1..Min(maxResults, Len(scoredRhymes)) |-> scoredRhymes[i].word]

\* what findRhymes and phoneticSearch do with the list searchHash returned:
\* score, sort, take the top; the result is the table after the call and the
\* list returned
rankFound(inputWord, found, maxResults) ==
  [tbl |-> found.tbl,
   ret |-> topWords(sortByScore(scoreCandidates(inputWord, found.ret)), maxResults)]

findRhymes(rhymeTable, inputWord, suffixLen, maxResults) ==
  rankFound(inputWord,
            searchHash(rhymeTable, extractSuffix(inputWord, suffixLen)),
            maxResults)

phoneticSearch(phoneticTable, inputWord, suffixLen, maxResults) ==
  rankFound(inputWord,
            searchHash(phoneticTable,
                       extractSuffix(computePhoneticKey(inputWord), suffixLen)),
            maxResults)

(***************************************************************************)
(* allliteration.js                                                        *)
(***************************************************************************)
\* letter is inputWord[0]; the index test is on the character code
findAlliteration(AlliterationTable, letter, maxResults) ==
  LET index == charCodeAt(lowerChar(letter)) - charCodeAt("a") IN
    IF index < 0 \/ index > 25 THEN <<>>
    ELSE LET wordList == AlliterationTable[index] IN
      [i \in 1..Min(maxResults, Len(wordList)) |-> wordList[i]]

(***************************************************************************)
(* buildAssistant.js                                                       *)
(***************************************************************************)
\* the body of the line loop for one line; b holds the two tables, the
\* alliteration table, wordCount, and (history) what each insertHash returned
\* the state after the three insertions of one word: r and ph are the results
\* of the two insertHash calls
wordAdded(b, word, r, ph) ==
  [rhymeTable |-> r.tbl,
   phoneticTable |-> ph.tbl,
   alliterationTable |->
      [b.alliterationTable EXCEPT
         ![charCodeAt(lowerChar(word[1])) - charCodeAt("a")] = Append(@, word)],
   wordCount |-> b.wordCount + 1,
   log |-> Append(b.log, [word |-> word, rhymeOk |-> r.ret, phoneticOk |-> ph.ret])]

\* the loop body from the alphabetic test on, for the trimmed line
processWord(b, word, suffixLen) ==
  IF Len(word) > 0 /\ isAlphabetic(word)
    THEN wordAdded(b, word,
           insertHash(b.rhymeTable, extractSuffix(word, suffixLen), word),
           insertHash(b.phoneticTable,
                      extractSuffix(computePhoneticKey(word), suffixLen), word))
    ELSE b

processLine(b, line, suffixLen) ==
  IF line = <<>> THEN b ELSE processWord(b, trim(line), suffixLen)

\* the line loop over lines[lo..hi], in line order; the range is halved, and
\* the first half evaluated by the test of wordCount, only to keep TLC's
\* evaluation shallow
RECURSIVE processLines(_, _, _, _, _)
processLines(b, lines, lo, hi, suffixLen) ==
  IF lo > hi THEN b
  ELSE IF lo = hi THEN processLine(b, lines[lo], suffixLen)
  ELSE LET mid == (lo + hi) \div 2
           sofar == processLines(b, lines, lo, mid, suffixLen)
       IN IF sofar.wordCount >= 0 THEN processLines(sofar, lines, mid + 1, hi, suffixLen)
          ELSE sofar

\* lines is wordlistText.split("\n"); the result is the bundle returned and the
\* log of the insertHash return values
\* the tables before the line loop
emptyTables ==
  [rhymeTable |-> HashTable(tableSize),
   phoneticTable |-> HashTable(tableSize),
   alliterationTable |-> [i \in 0..25 |-> <<>>],
   wordCount |-> 0,
   log |-> <<>>]

\* the object returned after the line loop, with its stats
bundle(b) ==
  [ret |-> [rhymeTable |-> b.rhymeTable,
            phoneticTable |-> b.phoneticTable,
            alliterationTable |-> b.alliterationTable,
            stats |-> [wordCount |-> b.wordCount,
                       rhymeTableCount |-> b.rhymeTable.count,
                       rhymeTableProbeSteps |-> b.rhymeTable.probeSteps,
                       rhymeTableLoadFactor |-> <<b.rhymeTable.count, b.rhymeTable.size>>,
                       phoneticTableCount |-> b.phoneticTable.count,
                       phoneticTableProbeSteps |-> b.phoneticTable.probeSteps]],
   log |-> b.log]

buildPoetryAssistant(lines, suffixLen) ==
  bundle(processLines(emptyTables, lines, 1, Len(lines), suffixLen))

(***************************************************************************)
(* index.js                                                                *)
(***************************************************************************)
\* rhymes.includes(word)
includes(list, word) == \E i \in 1..Len(list) : list[i] = word

\* a merge that tests each phonetic rhyme against the orthographic rhymes only,
\* not against the list as it grows
mergeRhymesAgainstFound(rhymes, phoneticRhymes, n) ==
  LET new(word) == ~includes(rhymes, word) IN
    rhymes \o SelectSeq(SubSeq(phoneticRhymes, 1, n), new)

\* the merge loop of query over phoneticRhymes[1..n]
RECURSIVE mergeRhymes(_, _, _)
mergeRhymes(rhymes, phoneticRhymes, n) ==
  IF n = 0 THEN rhymes
  ELSE LET merged == mergeRhymes(rhymes, phoneticRhymes, n - 1) IN
    IF ~includes(merged, phoneticRhymes[n])
      THEN Append(merged, phoneticRhymes[n])
      ELSE merged

\* a fallback that runs whatever the orthographic step found
needsFallbackAlways(rhymes) == TRUE

\* the condition under which query runs the phonetic search
needsFallback(rhymes) == Len(rhymes) < 3

\* the first half of query: findRhymes, countSyllables, findAlliteration
lookedUp(tbls, inputWord, found) ==
  [tables |-> [tbls EXCEPT !.rhymeTable = found.tbl],
   rhymes |-> found.ret,
   syllables |-> countSyllables(inputWord),
   alliterations |-> findAlliteration(tbls.alliterationTable, firstChar(inputWord), 5)]

queryLookup(tbls, inputWord, suffixLen) ==
  lookedUp(tbls, inputWord, findRhymes(tbls.rhymeTable, inputWord, suffixLen, 10))

\* a merge that pushes onto the bucket list searchHash returned, as it would if
\* findRhymes handed that list back instead of a copy
queryFallbackAliased(tbls, inputWord, suffixLen, rhymes) ==
  IF Len(rhymes) < 3
    THEN LET found == phoneticSearch(tbls.phoneticTable, inputWord, suffixLen, 7)
             merged == mergeRhymes(rhymes, found.ret, Len(found.ret))
             suffix == extractSuffix(inputWord, suffixLen)
             rt == tbls.rhymeTable
             held == {i \in 0..(rt.size - 1) : rt.table[i].bound /\ rt.table[i].suffix = suffix}
             pushed == [rt EXCEPT !.table =
                          [i \in 0..(rt.size - 1) |->
                             IF i \in held
                               THEN [rt.table[i] EXCEPT !.words =
                                       @ \o SubSeq(merged, Len(rhymes) + 1, Len(merged))]
                               ELSE rt.table[i]]]
         IN [tables |-> [tbls EXCEPT !.phoneticTable = found.tbl, !.rhymeTable = pushed],
             searched |-> TRUE,
             phoneticRhymes |-> found.ret,
             rhymes |-> merged]
    ELSE [tables |-> tbls, searched |-> FALSE, phoneticRhymes |-> <<>>, rhymes |-> rhymes]

\* a fallback that sorts the merged list by score again
queryFallbackResorted(tbls, inputWord, suffixLen, rhymes) ==
  IF Len(rhymes) < 3
    THEN LET found == phoneticSearch(tbls.phoneticTable, inputWord, suffixLen, 7)
             all == mergeRhymes(rhymes, found.ret, Len(found.ret))
             scored == [i \in 1..Len(all) |->
                          [word |-> all[i], score |-> scoreRhyme(inputWord, all[i])]]
         IN [tables |-> [tbls EXCEPT !.phoneticTable = found.tbl],
             searched |-> TRUE,
             phoneticRhymes |-> found.ret,
             rhymes |-> topWordsUncapped(sortByScore(scored), Len(all))]
    ELSE [tables |-> tbls, searched |-> FALSE, phoneticRhymes |-> <<>>, rhymes |-> rhymes]

\* a fallback that runs at three orthographic rhymes as well (<= instead of <)
queryFallbackAtThree(tbls, inputWord, suffixLen, rhymes) ==
  IF Len(rhymes) <= 3
    THEN LET found == phoneticSearch(tbls.phoneticTable, inputWord, suffixLen, 7) IN
           [tables |-> [tbls EXCEPT !.phoneticTable = found.tbl],
            searched |-> TRUE,
            phoneticRhymes |-> found.ret,
            rhymes |-> mergeRhymes(rhymes, found.ret, Len(found.ret))]
    ELSE [tables |-> tbls, searched |-> FALSE, phoneticRhymes |-> <<>>, rhymes |-> rhymes]

\* the merge of what phoneticSearch returned into rhymes
mergeFound(tbls, rhymes, found) ==
  [tables |-> [tbls EXCEPT !.phoneticTable = found.tbl],
   searched |-> TRUE,
   phoneticRhymes |-> found.ret,
   rhymes |-> mergeRhymes(rhymes, found.ret, Len(found.ret))]

\* the second half of query: the phonetic fallback and the merge
queryFallback(tbls, inputWord, suffixLen, rhymes) ==
  IF needsFallback(rhymes)
    THEN mergeFound(tbls, rhymes, phoneticSearch(tbls.phoneticTable, inputWord, suffixLen, 7))
    ELSE [tables |-> tbls, searched |-> FALSE, phoneticRhymes |-> <<>>, rhymes |-> rhymes]

\* query run from its first to its last line on the bundle tbls
query(tbls, inputWord, suffixLen) ==
  LET first == queryLookup(tbls, inputWord, suffixLen)
      second == queryFallback(first.tables, inputWord, suffixLen, first.rhymes)
  IN [tables |-> second.tables,
      ret |-> [rhymes |-> second.rhymes, syllables |-> first.syllables,
               alliterations |-> first.alliterations]]

(***************************************************************************)
(* The table driven directly: any sequence of insertHash and searchHash    *)
(* calls on one HashTable.                                                 *)
(***************************************************************************)
\* keys that share start indices and whose probe sequences wrap, for the
\* capacities 3 and 4: computeHash gives 0,0,2,2 and 0,3,3,3
Keys == {<<>>, <<"a","t">>, <<"i","t">>, <<"u","t">>}
Words == {<<"c","a","t">>, <<"h","i","t">>}

noCall == [name |-> "none", suffix |-> <<>>, word |-> <<>>, ret |-> TRUE, found |-> <<>>, n |-> 0]

\* no call of scoreRhyme or computePhoneticKey on its own
idleCall ==
  [fn |-> "none", word1 |-> <<>>, word2 |-> <<>>, length |-> 0, capacity |-> 1,
   done |-> FALSE, score |-> 0, swapped |-> 0, key |-> <<>>, suffix |-> <<>>,
   hash |-> 0]

CallIdle == call = idleCall

AssistantIdle ==
  /\ wordlistText = <<>>
  /\ suffixLength = 3
  /\ phase = "idle"
  /\ tables = <<>>
  /\ atBuild = <<>>
  /\ buildLog = <<>>
  /\ queries = <<>>

Init ==
  /\ T = HashTable(TableSize)
  /\ inserted = [k \in Keys |-> <<>>]
  /\ op = noCall
  /\ AssistantIdle
  /\ CallIdle

Insert(k, w) ==
  /\ op.n < MaxInserts
  /\ LET r == insertHash(T, k, w) IN
       /\ T' = r.tbl
       /\ inserted' = IF r.ret THEN [inserted EXCEPT ![k] = Append(@, w)] ELSE inserted
       /\ op' = [name |-> "insertHash", suffix |-> k, word |-> w, ret |-> r.ret,
                 found |-> <<>>, n |-> op.n + 1]
  /\ UNCHANGED <<assistantVars, callVars>>

Search(k) ==
  /\ T.probeSteps < MaxProbeSteps
  /\ LET r == searchHash(T, k) IN
       /\ T' = r.tbl
       /\ op' = [name |-> "searchHash", suffix |-> k, word |-> <<>>, ret |-> TRUE,
                 found |-> r.ret, n |-> op.n]
  /\ UNCHANGED <<inserted, assistantVars, callVars>>

Next ==
  \/ \E k \in Keys, w \in Words : Insert(k, w)
  \/ \E k \in Keys : Search(k)

Spec == Init /\ [][Next]_vars

(***************************************************************************)
(* The assistant: buildPoetryAssistant once, then query calls on the       *)
(* bundle it returned.  A query takes two steps, one per table it reads,   *)
(* so that the steps of different queries interleave.                      *)
(***************************************************************************)
\* number of lines of the word lists drawn from Lines
MaxLines == 2

\* thirteen words with one phonetic suffix (vng): eleven end in "ing", two in
\* "ong"
IngWords ==
  << <<"r","i","n","g">>, <<"k","i","n","g">>, <<"w","i","n","g">>, <<"l","o","n","g">>,
     <<"g","o","n","g">>, <<"d","i","n","g">>, <<"p","i","n","g">>, <<"z","i","n","g">>,
     <<"b","r","i","n","g">>, <<"t","h","i","n","g">>, <<"s","t","i","n","g">>, <<"s","w","i","n","g">>,
     <<"f","l","i","n","g">> >>

\* seven words whose phonetic suffix is that of "cat" and two that end in "cat"
KatWords ==
  << <<"k","i","t">>, <<"k","a","t">>, <<"s","k","a","t">>, <<"k","e","t">>,
     <<"k","o","t">>, <<"k","u","t">>, <<"k","o","a","t">>, <<"c","o","p","y","c","a","t">>,
     <<"c","o","n","c","a","t">> >>

\* nine words with nine suffixes and nine phonetic suffixes
FullWords ==
  << <<"c","a","t">>, <<"d","o","g">>, <<"s","u","n">>, <<"p","e","n">>,
     <<"m","a","p">>, <<"b","e","d">>, <<"f","i","g">>, <<"h","u","t">>,
     <<"j","a","m">> >>

\* lines of a word list: words, a padded capitalised word, an empty line and a
\* line that is not alphabetic
Lines == {<<"s","c","a","t">>, <<" ","K","i","t"," ">>, <<>>, <<"c","-","t">>}

Prefixes(list) == {SubSeq(list, 1, n) : n \in 0..Len(list)}

RECURSIVE SeqsUpTo(_, _)
SeqsUpTo(S, n) ==
  IF n = 0 THEN {<<>>}
  ELSE LET shorter == SeqsUpTo(S, n - 1) IN
    shorter \cup {Append(l, x) : l \in shorter, x \in S}

WordLists ==
  Prefixes(IngWords) \cup Prefixes(KatWords) \cup Prefixes(FullWords)
    \cup SeqsUpTo(Lines, MaxLines)

SuffixLengths == {2, 3}

QueryWords == {<<"c","a","t">>, <<"s","i","n","g">>, <<"s","o","n","g">>}

TableIdle ==
  /\ T = HashTable(TableSize)
  /\ inserted = [k \in Keys |-> <<>>]
  /\ op = noCall

InitAssistant ==
  /\ TableIdle
  /\ CallIdle
  /\ wordlistText \in WordLists
  /\ suffixLength \in SuffixLengths
  /\ phase = "start"
  /\ tables = <<>>
  /\ atBuild = <<>>
  /\ buildLog = <<>>
  /\ queries = <<>>

\* the caller keeps what buildPoetryAssistant returned
Built(b) ==
  /\ tables' = b.ret
  /\ atBuild' = b.ret
  /\ buildLog' = b.log

\* the caller keeps what the first half of query for w worked out
LookedUp(w, r) ==
  /\ tables' = r.tables
  /\ queries' = Append(queries,
       [pc |-> "lookedUp", inputWord |-> w, rhymes |-> r.rhymes,
        syllables |-> r.syllables, alliterations |-> r.alliterations,
        found |-> r.rhymes, searched |-> FALSE, phoneticRhymes |-> <<>>])

\* the caller keeps what query q returned
QueryReturned(q, r) ==
  /\ tables' = r.tables
  /\ queries' = [queries EXCEPT ![q] =
       [@ EXCEPT !.pc = "returned", !.rhymes = r.rhymes,
                 !.searched = r.searched, !.phoneticRhymes = r.phoneticRhymes]]

\* buildPoetryAssistant(wordlistText, suffixLength): it always returns the bundle
Build ==
  /\ phase = "start"
  /\ Built(buildPoetryAssistant(wordlistText, suffixLength))
  /\ phase' = "built"
  /\ UNCHANGED <<tableVars, callVars, wordlistText, suffixLength, queries>>

\* query(tables, w, suffixLength) up to the test of rhymes.length
QueryLookup(w) ==
  /\ phase = "built"
  /\ Len(queries) < MaxQueries
  /\ LookedUp(w, queryLookup(tables, w, suffixLength))
  /\ UNCHANGED <<tableVars, callVars, wordlistText, suffixLength, phase, atBuild, buildLog>>

\* the rest of query q: the phonetic fallback, the merge and the return
QueryReturn(q) ==
  /\ phase = "built"
  /\ queries[q].pc = "lookedUp"
  /\ QueryReturned(q, queryFallback(tables, queries[q].inputWord, suffixLength,
                                queries[q].rhymes))
  /\ UNCHANGED <<tableVars, callVars, wordlistText, suffixLength, phase, atBuild, buildLog>>

NextAssistant ==
  \/ Build
  \/ \E w \in QueryWords : QueryLookup(w)
  \/ \E q \in 1..Len(queries) : QueryReturn(q)

SpecAssistant == InitAssistant /\ [][NextAssistant]_vars

(***************************************************************************)
(* The assistant on the word lists and input words of the documented       *)
(* examples.                                                               *)
(***************************************************************************)
\* three words in at and one other word
CatWords ==
  << <<"c","a","t">>, <<"h","a","t">>, <<"b","a","t">>, <<"d","o","g">> >>

\* a list that contains blue
BlueWords == << <<"b","l","u","e">>, <<"d","o","g">> >>

ExampleLists == {CatWords, BlueWords}

ExampleQueryWords ==
  {<<"c","a","t">>, <<"t","h","r","o","u","g","h">>, <<"b","l","u","e">>}

InitExamples ==
  /\ TableIdle
  /\ CallIdle
  /\ wordlistText \in ExampleLists
  /\ suffixLength \in SuffixLengths
  /\ phase = "start"
  /\ tables = <<>>
  /\ atBuild = <<>>
  /\ buildLog = <<>>
  /\ queries = <<>>

NextExamples ==
  \/ Build
  \/ \E w \in ExampleQueryWords : QueryLookup(w)
  \/ \E q \in 1..Len(queries) : QueryReturn(q)

SpecExamples == InitExamples /\ [][NextExamples]_vars

(***************************************************************************)
(* scoreRhyme and computePhoneticKey called on their own, on words drawn   *)
(* from bounded sets.                                                      *)
(***************************************************************************)
\* length of the words handed to scoreRhyme
MaxWordLen == 6
\* number of fragments a word handed to computePhoneticKey is made of
MaxFragments == 2

\* the words over a and b of at most MaxWordLen characters: every number of
\* matching trailing characters and every length difference from 0 to
\* MaxWordLen, with equal and with different first characters
ScoreWords == SeqsUpTo({"a", "b"}, MaxWordLen)

\* the twelve patterns computePhoneticKey replaces, vowels, c before and not
\* before e or i, consonants, doubled consonants, capitals
Fragments ==
  { <<"o","u","g","h">>, <<"a","u","g","h">>, <<"t","i","o","n">>, <<"s","i","o","n">>,
    <<"p","h">>, <<"g","h">>, <<"c","k">>, <<"w","h">>, <<"w","r">>, <<"k","n">>,
    <<"g","n">>, <<"m","b">>,
    <<"a">>, <<"i">>, <<"e">>, <<"c">>, <<"t">>, <<"l">>, <<"T">>, <<"C">> }

RECURSIVE Concats(_)
Concats(n) ==
  IF n = 0 THEN {<<>>}
  ELSE LET shorter == Concats(n - 1) IN
    shorter \cup {w \o f : w \in shorter, f \in Fragments}

\* the words of the examples of COMPUTE-PHONETIC-KEY and of the README
DocWords ==
  { <<"c","a","t">>, <<"p","h","o","n","e">>, <<"k","n","i","g","h","t">>,
    <<"l","a","m","b">>, <<"l","e","t","t","e","r">>, <<"b","l","u","e">>,
    <<"t","h","r","o","u","g","h">> }

KeyWords == (Concats(MaxFragments) \ {<<>>}) \cup DocWords

\* suffix lengths handed to extractSuffix: 0..MaxSuffixLength
MaxSuffixLength == 4
\* capacities handed to computeHash: 1..MaxCapacity and the one build uses
MaxCapacity == 8

\* words of small and capital letters of at most MaxWordLen characters
SuffixWords == SeqsUpTo({"a", "B"}, MaxWordLen)

\* table sizes: the small ones and the 6577 of buildPoetryAssistant
Capacities == 1..MaxCapacity \cup {6577}

InitWords ==
  /\ TableIdle
  /\ AssistantIdle
  /\ \/ \E a, b \in ScoreWords :
          call = [idleCall EXCEPT !.fn = "scoreRhyme", !.word1 = a, !.word2 = b]
     \/ \E w \in KeyWords \cup {<<>>} :
          call = [idleCall EXCEPT !.fn = "computePhoneticKey", !.word1 = w]
     \/ \E w \in SuffixWords, n \in 0..MaxSuffixLength :
          call = [idleCall EXCEPT !.fn = "extractSuffix", !.word1 = w, !.length = n]
     \/ \E w \in KeyWords \cup {<<>>}, c \in Capacities :
          call = [idleCall EXCEPT !.fn = "computeHash", !.word1 = w, !.capacity = c]

\* scoreRhyme(word1, word2), and the call with the arguments swapped
ScoreRhyme ==
  /\ call.fn = "scoreRhyme" /\ ~call.done
  /\ call' = [call EXCEPT !.done = TRUE,
                          !.score = scoreRhyme(call.word1, call.word2),
                          !.swapped = scoreRhyme(call.word2, call.word1)]
  /\ UNCHANGED <<tableVars, assistantVars>>

\* computePhoneticKey(word1)
ComputePhoneticKey ==
  /\ call.fn = "computePhoneticKey" /\ ~call.done
  /\ call' = [call EXCEPT !.done = TRUE, !.key = computePhoneticKey(call.word1)]
  /\ UNCHANGED <<tableVars, assistantVars>>

\* extractSuffix(word1, length)
ExtractSuffix ==
  /\ call.fn = "extractSuffix" /\ ~call.done
  /\ call' = [call EXCEPT !.done = TRUE, !.suffix = extractSuffix(call.word1, call.length)]
  /\ UNCHANGED <<tableVars, assistantVars>>

\* computeHash(word1, capacity)
ComputeHash ==
  /\ call.fn = "computeHash" /\ ~call.done
  /\ call' = [call EXCEPT !.done = TRUE, !.hash = computeHash(call.word1, call.capacity)]
  /\ UNCHANGED <<tableVars, assistantVars>>

NextWords == ScoreRhyme \/ ComputePhoneticKey \/ ExtractSuffix \/ ComputeHash

SpecWords == InitWords /\ [][NextWords]_vars

(***************************************************************************)
(* Properties of the directly driven table (specification Spec).           *)
(***************************************************************************)
Slots == 0..(T.size - 1)

\* the bucket index a key is bound at (only used where the key is bound)
SlotOf(k) == CHOOSE i \in Slots : T.table[i].bound /\ T.table[i].suffix = k

IsBound(k) == \E i \in Slots : T.table[i].bound /\ T.table[i].suffix = k

\* C1: after any sequence of insertHash calls, searchHash(T, k) returns exactly
\* the words whose insert under k returned true, in insertion order with
\* duplicates kept, and the empty list for a key never successfully inserted;
\* the same holds of the list the last searchHash call actually returned.
C1_SearchReturnsInserted ==
  /\ \A k \in Keys : searchHash(T, k).ret = inserted[k]
  /\ op.name = "searchHash" => op.found = inserted[op.suffix]

\* a search that returned two words, one of them twice or in call order, for a
\* key that collided on its start index and was placed after wrapping around
C1_Witness ==
  /\ op.name = "searchHash"
  /\ Len(op.found) >= 2
  /\ IsBound(op.suffix)
  /\ SlotOf(op.suffix) < computeHash(op.suffix, T.size)
  /\ \E k \in Keys : k # op.suffix /\ IsBound(k)
                     /\ computeHash(k, T.size) = computeHash(op.suffix, T.size)
  /\ \E k \in Keys : ~IsBound(k) /\ searchHash(T, k).ret = <<>>

\* C2: no two buckets of the table are bound to the same key.
C2_OneBucketPerKey ==
  \A i \in Slots, j \in Slots :
     (T.table[i].bound /\ T.table[j].bound /\ T.table[i].suffix = T.table[j].suffix)
        => i = j

\* a key inserted twice while another key sits in its start bucket
C2_Witness ==
  \E k \in Keys :
     /\ Len(inserted[k]) >= 2
     /\ IsBound(k)
     /\ SlotOf(k) # computeHash(k, T.size)

\* C3: a bucket bound to a key stays bound to that key, at the same index,
\* across every later insertHash and searchHash call.
C3_BoundBucketsStay ==
  [][\A i \in Slots :
        T.table[i].bound =>
           (T'.table[i].bound /\ T'.table[i].suffix = T.table[i].suffix)]_vars

\* a full table that has since been through a refused insert and a probing search
C3_Witness ==
  /\ T.count = T.size
  /\ op.n = MaxInserts
  /\ op.name = "searchHash"
  /\ T.probeSteps > 0

\* C4: insertHash returns false exactly when every bucket is bound to a key
\* other than the one inserted; with an empty bucket or the key present it
\* returns true.
C4_FalseOnlyWhenFull ==
  [][(op'.name = "insertHash" /\ op'.n = op.n + 1) =>
        (op'.ret = FALSE <=>
           \A i \in Slots : T.table[i].bound /\ T.table[i].suffix # op'.suffix)]_vars

\* an insert that was refused because every bucket holds another key
C4_Witness ==
  /\ op.name = "insertHash"
  /\ op.ret = FALSE
  /\ T.count = T.size

\* the bucket index key k is bound at in table Tb
SlotIn(Tb, k) ==
  CHOOSE i \in 0..(Tb.size - 1) : Tb.table[i].bound /\ Tb.table[i].suffix = k

\* number of buckets from the start index of k up to index i, going round
Distance(Tb, k, i) == (i - computeHash(k, Tb.size) + Tb.size) % Tb.size

\* the buckets an insert of k skipped, given the table it left and what it
\* returned: those before the bucket of k, or all of them
Skipped(Tb, k, ret) == IF ret THEN Distance(Tb, k, SlotIn(Tb, k)) ELSE Tb.size

\* C26, as stated: insertHash adds one to the probe-step counter for every
\* bucket it skips because the bucket is bound to a different key.
C26_InsertCountsProbeSteps ==
  [][(op'.name = "insertHash" /\ op'.n = op.n + 1) =>
        T'.probeSteps = T.probeSteps + Skipped(T', op'.suffix, op'.ret)]_vars

\* C27: for each key k bound at index i, every bucket on the cyclic path from
\* computeHash(k, size) up to i is bound.
C27_ProbeChain ==
  \A k \in Keys :
     IsBound(k) =>
        \A d \in 0..Distance(T, k, SlotOf(k)) :
           T.table[(computeHash(k, T.size) + d) % T.size].bound

\* a key bound past the end of the array, after its start index, and a search
\* for a key that is not bound, which ended at an empty bucket
C27_Witness ==
  /\ \E k \in Keys :
        /\ IsBound(k)
        /\ Distance(T, k, SlotOf(k)) >= 1
        /\ SlotOf(k) < computeHash(k, T.size)
  /\ \E i \in Slots : ~T.table[i].bound
  /\ op.name = "searchHash"
  /\ ~IsBound(op.suffix)
  /\ op.found = <<>>

\* the count of T agrees with its buckets and with the accepted inserts
CountAgrees ==
  /\ T.count = Cardinality({i \in Slots : T.table[i].bound})
  /\ T.count = Cardinality({k \in Keys : inserted[k] # <<>>})
  /\ T.count <= T.size

\* an insert step that was refused or that added a word to a bound key
RefusedOrAppended ==
  /\ op'.name = "insertHash" /\ op'.n = op.n + 1
  /\ ~op'.ret \/ IsBound(op'.suffix)

\* C28: count is the number of non-empty buckets and the number of distinct
\* keys successfully inserted, and is at most size; an insert that returns
\* false or appends to an existing key leaves count unchanged.
C28_CountIsBoundBuckets ==
  []CountAgrees /\ [][RefusedOrAppended => T'.count = T.count]_vars

\* a second word accepted for a key, in a table that holds two keys
C28_Witness ==
  /\ op.name = "insertHash"
  /\ op.ret
  /\ Len(inserted[op.suffix]) >= 2
  /\ T.count = 2
  /\ op.n = 3

(***************************************************************************)
(* Properties of the assistant (specification SpecAssistant).              *)
(***************************************************************************)
Returned(q) == queries[q].pc = "returned"

\* what query q has handed back, or holds so far
Result(q) ==
  [rhymes |-> queries[q].rhymes, syllables |-> queries[q].syllables,
   alliterations |-> queries[q].alliterations]

\* C5: an insertHash that returns false during build makes the build fail: a
\* bundle is returned only if every insert into both tables was accepted.
C5_FullTableFailsBuild ==
  phase = "built" =>
     \A i \in 1..Len(buildLog) : buildLog[i].rhymeOk /\ buildLog[i].phoneticOk

\* C6: once build has returned, queries leave the two tables and the
\* alliteration table as they were: keys, word lists, count and probeSteps.
C6_QueriesLeaveTablesUnchanged ==
  phase = "built" => tables = atBuild

\* C7: every query, whatever queries ran before it or between its two steps,
\* returns what it returns when run alone on the tables as build left them.
C7_QueryResultsIndependent == 
  \A q \in 1..Len(queries) :
     IF Returned(q)
       THEN Result(q) = query(atBuild, queries[q].inputWord, suffixLength).ret
       ELSE LET alone == queryLookup(atBuild, queries[q].inputWord, suffixLength) IN
              Result(q) = [rhymes |-> alone.rhymes, syllables |-> alone.syllables,
                           alliterations |-> alone.alliterations]

\* a query that found rhymes returned after another query had moved the
\* probe-step counters of both tables
C7_Witness ==
  /\ phase = "built"
  /\ tables.rhymeTable.probeSteps > atBuild.rhymeTable.probeSteps
  /\ tables.phoneticTable.probeSteps > atBuild.phoneticTable.probeSteps
  /\ Len(queries) = 2
  /\ Returned(1) /\ Returned(2)
  /\ queries[2].searched
  /\ Len(queries[2].rhymes) > Len(queries[2].found)

\* C8: the rhyme list of a query never has more than 10 entries, with or
\* without the phonetic fallback.
C8_AtMostTenRhymes ==
  \A q \in 1..Len(queries) : Len(queries[q].rhymes) <= 10

\* one query whose eleven orthographic rhymes were cut to 10, and one whose
\* list grew in the fallback
C8_Witness ==
  \E q1, q2 \in 1..Len(queries) :
     /\ Returned(q1) /\ ~queries[q1].searched /\ Len(queries[q1].rhymes) = 10
     /\ Len(searchHash(atBuild.rhymeTable,
                       extractSuffix(queries[q1].inputWord, suffixLength)).ret) > 10
     /\ Returned(q2) /\ queries[q2].searched
     /\ Len(queries[q2].rhymes) > Len(queries[q2].found)

\* C9, as stated: fallback results appended to the orthographic rhymes take the
\* list past 10 entries; if any list does, the longest one does: two
\* orthographic rhymes and seven phonetic additions.
C9_LongestFallbackListExceedsTen ==
  \A q \in 1..Len(queries) :
     (Returned(q) /\ queries[q].searched /\ Len(queries[q].found) = 2
        /\ Len(queries[q].rhymes) = Len(queries[q].found) + 7)
       => Len(queries[q].rhymes) > 10

\* C9, amended: a list the phonetic fallback ran for has at most 9 entries, at
\* most 2 orthographic rhymes and at most 7 phonetic additions.
C9_FallbackListAtMostNine ==
  \A q \in 1..Len(queries) :
     (Returned(q) /\ queries[q].searched) =>
        /\ Len(queries[q].found) <= 2
        /\ Len(queries[q].rhymes) - Len(queries[q].found) <= 7
        /\ Len(queries[q].rhymes) <= 9

\* two orthographic rhymes and seven phonetic additions
C9_Witness ==
  \E q \in 1..Len(queries) :
     /\ Returned(q) /\ queries[q].searched
     /\ Len(queries[q].found) = 2
     /\ Len(queries[q].rhymes) = 9

\* index of the first occurrence of x in list
FirstIndex(list, x) == CHOOSE i \in 1..Len(list) : list[i] = x /\ \A j \in 1..(i - 1) : list[j] # x

\* rhymes is found followed by the words of phoneticRhymes that are not in
\* found, each once, in the order phoneticRhymes first has them
IsFoundPlusNew(rhymes, found, phoneticRhymes) ==
  /\ Len(rhymes) >= Len(found)
  /\ SubSeq(rhymes, 1, Len(found)) = found
  /\ LET added == SubSeq(rhymes, Len(found) + 1, Len(rhymes)) IN
       /\ Range(added) = Range(phoneticRhymes) \ Range(found)
       /\ \A i, j \in 1..Len(added) :
             i < j => FirstIndex(phoneticRhymes, added[i]) < FirstIndex(phoneticRhymes, added[j])

\* C10: with 3 or more orthographic rhymes query returns that list and does no
\* phonetic search; with 0, 1 or 2 it does the phonetic search and appends the
\* results that are not already present.
C10_FallbackThreshold ==
  \A q \in 1..Len(queries) :
     Returned(q) =>
        IF Len(queries[q].found) >= 3
          THEN ~queries[q].searched /\ queries[q].rhymes = queries[q].found
          ELSE /\ queries[q].searched
               /\ queries[q].phoneticRhymes =
                     phoneticSearch(atBuild.phoneticTable, queries[q].inputWord,
                                    suffixLength, 7).ret
               /\ IsFoundPlusNew(queries[q].rhymes, queries[q].found,
                                 queries[q].phoneticRhymes)

\* one query with exactly 3 orthographic rhymes and no phonetic search, one
\* with exactly 2 whose phonetic search added words and skipped present ones
C10_Witness ==
  \E q1, q2 \in 1..Len(queries) :
     /\ Returned(q1) /\ Len(queries[q1].found) = 3 /\ ~queries[q1].searched
     /\ Returned(q2) /\ Len(queries[q2].found) = 2 /\ queries[q2].searched
     /\ Len(queries[q2].rhymes) > 2
     /\ Len(queries[q2].rhymes) < 2 + Len(queries[q2].phoneticRhymes)

\* the score of word against the input word of query q
Score(q, word) == scoreRhyme(queries[q].inputWord, word)

\* the phonetic additions of query q: what follows the orthographic rhymes
Added(q) == SubSeq(queries[q].rhymes, Len(queries[q].found) + 1, Len(queries[q].rhymes))

\* C11: the orthographic rhymes are a prefix of the returned list, in
\* descending-score order, and the phonetic additions follow in the order
\* phoneticSearch ranked them; the combined list is not sorted again.
C11_OrthographicThenPhonetic ==
  \A q \in 1..Len(queries) :
     Returned(q) =>
        /\ Len(queries[q].rhymes) >= Len(queries[q].found)
        /\ SubSeq(queries[q].rhymes, 1, Len(queries[q].found)) = queries[q].found
        /\ \A i, j \in 1..Len(queries[q].found) :
              i < j => Score(q, queries[q].found[i]) >= Score(q, queries[q].found[j])
        /\ Range(Added(q)) \subseteq Range(queries[q].phoneticRhymes)
        /\ \A i, j \in 1..Len(Added(q)) :
              i < j => FirstIndex(queries[q].phoneticRhymes, Added(q)[i])
                         < FirstIndex(queries[q].phoneticRhymes, Added(q)[j])

\* a returned list in which a phonetic addition follows an orthographic rhyme
\* with a lower score
C11_Witness ==
  \E q \in 1..Len(queries) :
     /\ Returned(q) /\ queries[q].searched
     /\ \E i \in 1..Len(queries[q].found) :
        \E j \in (Len(queries[q].found) + 1)..Len(queries[q].rhymes) :
           Score(q, queries[q].rhymes[i]) < Score(q, queries[q].rhymes[j])

\* number of occurrences of word in list
Count(list, word) == Cardinality({i \in 1..Len(list) : list[i] = word})

\* C12, as stated: a word that is twice among the ranked phonetic candidates
\* and not among the orthographic rhymes is appended to the rhyme list twice.
C12_DuplicateAppendedTwice ==
  \A q \in 1..Len(queries) :
     (Returned(q) /\ queries[q].searched) =>
        \A word \in Range(queries[q].phoneticRhymes) \ Range(queries[q].found) :
           Count(queries[q].phoneticRhymes, word) = 2 => Count(queries[q].rhymes, word) = 2

\* C12, amended: a word that is twice (or more often) among the ranked
\* phonetic candidates and not among the orthographic rhymes is appended once.
C12_DuplicateAppendedOnce ==
  \A q \in 1..Len(queries) :
     (Returned(q) /\ queries[q].searched) =>
        \A word \in Range(queries[q].phoneticRhymes) \ Range(queries[q].found) :
           Count(queries[q].phoneticRhymes, word) >= 2 => Count(queries[q].rhymes, word) = 1

\* a returned list with one occurrence of a word that phoneticSearch ranked
\* twice and the orthographic step did not find
C12_Witness ==
  \E q \in 1..Len(queries) :
     /\ Returned(q) /\ queries[q].searched
     /\ \E word \in Range(queries[q].phoneticRhymes) \ Range(queries[q].found) :
           /\ Count(queries[q].phoneticRhymes, word) = 2
           /\ Count(queries[q].rhymes, word) = 1

\* result is the first min(maxResults, n) of the n candidates that score above
\* 0 against inputWord, by descending score, candidates with equal scores in
\* the order of the list candidates
IsStableTop(result, candidates, inputWord, maxResults) ==
  LET sc(word) == scoreRhyme(inputWord, word)
      positive == {i \in 1..Len(candidates) : sc(candidates[i]) > 0}
      before(v, w) ==
        \/ sc(v) > sc(w)
        \/ sc(v) = sc(w) /\ FirstIndex(candidates, v) <= FirstIndex(candidates, w)
  IN /\ Len(result) = Min(maxResults, Cardinality(positive))
     /\ \A p \in 1..Len(result) : \E i \in positive : candidates[i] = result[p]
     /\ \A word \in Range(result) : Count(result, word) <= Count(candidates, word)
     /\ \A p, r \in 1..Len(result) : p < r => before(result[p], result[r])
     /\ \A i \in positive :
           Count(result, candidates[i]) < Count(candidates, candidates[i])
             => \A p \in 1..Len(result) : before(result[p], candidates[i])

\* the bucket lists the two steps of query q rank
Candidates(q) ==
  searchHash(atBuild.rhymeTable, extractSuffix(queries[q].inputWord, suffixLength)).ret
PhoneticCandidates(q) ==
  searchHash(atBuild.phoneticTable,
             extractSuffix(computePhoneticKey(queries[q].inputWord), suffixLength)).ret

\* C13: findRhymes and phoneticSearch return the first min(maxResults, n)
\* candidates with score > 0, by descending score, equal scores in the order
\* of the bucket list.
C13_StableTopByScore ==
  \A q \in 1..Len(queries) :
     /\ IsStableTop(queries[q].found, Candidates(q), queries[q].inputWord, 10)
     /\ (Returned(q) /\ queries[q].searched) =>
           IsStableTop(queries[q].phoneticRhymes, PhoneticCandidates(q),
                       queries[q].inputWord, 7)

\* findRhymes cut eleven candidates to ten, with equal and with different
\* scores among them and not in bucket order; phoneticSearch cut more than
\* seven candidates to seven
C13_Witness ==
  \E q1, q2 \in 1..Len(queries) :
     /\ Len(Candidates(q1)) > 10
     /\ Len(queries[q1].found) = 10
     /\ queries[q1].found # SubSeq(Candidates(q1), 1, 10)
     /\ \E i \in 1..9 : Score(q1, queries[q1].found[i]) = Score(q1, queries[q1].found[i + 1])
     /\ \E i \in 1..9 : Score(q1, queries[q1].found[i]) > Score(q1, queries[q1].found[i + 1])
     /\ Returned(q2) /\ queries[q2].searched
     /\ Len(PhoneticCandidates(q2)) > 7
     /\ Len(queries[q2].phoneticRhymes) = 7

\* C15: the rhyme list of a query never contains the input word.
C15_InputWordNotReturned ==
  \A q \in 1..Len(queries) :
     /\ ~includes(queries[q].rhymes, queries[q].inputWord)
     /\ ~includes(queries[q].phoneticRhymes, queries[q].inputWord)

\* a returned query whose input word is in the bucket findRhymes ranked and in
\* the bucket phoneticSearch ranked
C15_Witness ==
  \E q \in 1..Len(queries) :
     /\ Returned(q) /\ queries[q].searched
     /\ includes(Candidates(q), queries[q].inputWord)
     /\ includes(PhoneticCandidates(q), queries[q].inputWord)

\* the lines the build accepts: non-empty after trimming and alphabetic
AcceptedLines ==
  {i \in 1..Len(wordlistText) :
     trim(wordlistText[i]) # <<>> /\ isAlphabetic(trim(wordlistText[i]))}

\* the number of words in the buckets 0..n-1 of a table
RECURSIVE StoredUpTo(_, _)
StoredUpTo(Tb, n) ==
  IF n = 0 THEN 0
  ELSE StoredUpTo(Tb, n - 1)
         + (IF Tb.table[n - 1].bound THEN Len(Tb.table[n - 1].words) ELSE 0)

Stored(Tb) == StoredUpTo(Tb, Tb.size)

\* word is in the list of a bound bucket of the table
Retrievable(Tb, word) ==
  \E i \in 0..(Tb.size - 1) :
    Tb.table[i].bound /\ \E j \in 1..Len(Tb.table[i].words) : Tb.table[i].words[j] = word

\* C24, as stated: after build, stats.wordCount is the number of input lines
\* that are non-empty after trimming and alphabetic, and it is the number of
\* words stored across the buckets of the orthographic table and across those of
\* the phonetic table; every accepted word is retrievable from both tables.
C24_WordCountIsStoredWords ==
  phase = "built" =>
    /\ tables.stats.wordCount = Cardinality(AcceptedLines)
    /\ tables.stats.wordCount = Stored(tables.rhymeTable)
    /\ tables.stats.wordCount = Stored(tables.phoneticTable)
    /\ \A i \in AcceptedLines :
         /\ Retrievable(tables.rhymeTable, trim(wordlistText[i]))
         /\ Retrievable(tables.phoneticTable, trim(wordlistText[i]))

(***************************************************************************)
(* Claims about scoreRhyme and computePhoneticKey, checked under SpecWords.*)
(***************************************************************************)
Scored == call.fn = "scoreRhyme" /\ call.done
Keyed == call.fn = "computePhoneticKey" /\ call.done

\* C16: scoreRhyme(w1, w2) = scoreRhyme(w2, w1) for all words w1 and w2.
C16_ScoreSymmetric ==
  Scored => call.score = call.swapped

\* two words of different lengths and different first characters that share
\* trailing characters, scored both ways
C16_Witness ==
  /\ Scored
  /\ Len(call.word1) + 2 <= Len(call.word2)
  /\ Len(call.word1) > 0
  /\ call.word1[1] # call.word2[1]
  /\ call.score > 40
  /\ call.swapped > 40

\* C17: scoreRhyme(w1, w2) is an integer in [0, 100]; 100 is attained.
C17_ScoreInRange ==
  Scored => /\ call.score \in 0..100
            /\ call.swapped \in 0..100

\* the score 100: at least 4 matching trailing characters, different first
\* characters, equal lengths
C17_Witness ==
  /\ Scored
  /\ call.score = 100
  /\ matchingChars(call.word1, call.word2, Len(call.word1), Len(call.word2)) >= 4
  /\ call.word1[1] # call.word2[1]
  /\ Len(call.word1) = Len(call.word2)

\* C18, as stated: computePhoneticKey("knight") returns "nVt".
C18_KnightKey ==
  (Keyed /\ call.word1 = <<"k","n","i","g","h","t">>) => call.key = <<"n","V","t">>

\* C19, as stated: every character of the key of an alphabetic word is
\* lowercase.
C19_KeyLowercase ==
  (Keyed /\ isAlphabetic(call.word1)) =>
     \A i \in 1..Len(call.key) : call.key[i] \in LowerSet

\* the uppercase letters computePhoneticKey writes: V for a run of vowels, S or
\* K for c, and the letters of its replacements O, AF, SHUN, ZHUN, F, K, W, R,
\* N, M
KeyCapitals == {"V", "S", "K", "O", "A", "F", "H", "U", "N", "Z", "W", "R", "M"}

\* C19, amended: every character of the key of an alphabetic word is a
\* lowercase consonant other than c, or one of the capitals computePhoneticKey
\* writes.
C19_KeyConsonantsAndCapitals ==
  (Keyed /\ isAlphabetic(call.word1)) =>
     \A i \in 1..Len(call.key) :
        call.key[i] \in ((LowerSet \ (vowels \cup {"c"})) \cup KeyCapitals)

\* the key of a word with a capital, a vowel and a kept consonant: it has
\* capitals and lowercase letters
C19_Witness ==
  /\ Keyed
  /\ \E i \in 1..Len(call.word1) : call.word1[i] \in UpperSet
  /\ \E i \in 1..Len(call.word1) : call.word1[i] \in vowels
  /\ \E i \in 1..Len(call.key) : call.key[i] = "V"
  /\ \E i \in 1..Len(call.key) : call.key[i] \in LowerSet

Suffixed == call.fn = "extractSuffix" /\ call.done

\* the last n characters of a word, none when n is 0
Trailing(word, n) == [i \in 1..n |-> word[Len(word) - n + i]]

\* C21, as stated: for every word w and every suffix length L >= 0,
\* extractSuffix(w, L) has length min(len(w), L) and is the last min(len(w), L)
\* characters of the lowercased word.
C21_SuffixIsTrailingSubstring ==
  Suffixed =>
    /\ Len(call.suffix) = Min(Len(call.word1), call.length)
    /\ call.suffix = Trailing(toLowerCase(call.word1), Min(Len(call.word1), call.length))

Hashed == call.fn = "computeHash" /\ call.done

\* C22: for every string key and every capacity >= 1, computeHash(key, capacity)
\* is an integer in 0..capacity-1, and the empty string hashes to 0.
C22_HashInRange ==
  Hashed =>
    /\ call.hash \in 0..(call.capacity - 1)
    /\ call.word1 = <<>> => call.hash = 0

\* a key of several characters hashed to the last index of its table
C22_Witness ==
  /\ Hashed
  /\ Len(call.word1) >= 2
  /\ call.capacity >= 2
  /\ call.hash = call.capacity - 1

\* The two-phase reference of the phonetic key, written position by position.
\* The twelve digraph rules, in the listed order.
DigraphRules ==
  << <<<<"o","u","g","h">>, <<"O">>>>,
     <<<<"a","u","g","h">>, <<"A","F">>>>,
     <<<<"t","i","o","n">>, <<"S","H","U","N">>>>,
     <<<<"s","i","o","n">>, <<"Z","H","U","N">>>>,
     <<<<"p","h">>, <<"F">>>>,
     <<<<"g","h">>, <<>>>>,
     <<<<"c","k">>, <<"K">>>>,
     <<<<"w","h">>, <<"W">>>>,
     <<<<"w","r">>, <<"R">>>>,
     <<<<"k","n">>, <<"N">>>>,
     <<<<"g","n">>, <<"N">>>>,
     <<<<"m","b">>, <<"M">>>> >>

\* the concatenation of the pieces 1..n of a sequence of sequences
RECURSIVE Flatten(_, _)
Flatten(pieces, n) == IF n = 0 THEN <<>> ELSE Flatten(pieces, n - 1) \o pieces[n]

\* pat occurs in s at position i
OccursAt(s, pat, i) ==
  /\ i + Len(pat) - 1 <= Len(s)
  /\ \A j \in 1..Len(pat) : s[i + j - 1] = pat[j]

\* the positions where a replaced occurrence starts: an occurrence that no
\* replaced occurrence further left overlaps
ReplacedAt(s, pat) ==
  LET taken[i \in 1..Len(s)] ==
        /\ OccursAt(s, pat, i)
        /\ \A j \in 1..(i - 1) : j + Len(pat) > i => ~taken[j]
  IN {i \in 1..Len(s) : taken[i]}

\* one rule across the whole string: a replaced occurrence gives the
\* replacement, a character inside one gives nothing, any other is kept
RewriteWith(s, pat, subst, starts) ==
  Flatten([i \in 1..Len(s) |->
             IF i \in starts THEN subst
             ELSE IF \E j \in starts : j < i /\ i < j + Len(pat) THEN <<>>
             ELSE <<s[i]>>], Len(s))

Rewrite(s, rule) == RewriteWith(s, rule[1], rule[2], ReplacedAt(s, rule[1]))

\* rules 1..n one after another, each on the output of the one before
RECURSIVE RewriteAll(_, _)
RewriteAll(s, n) == IF n = 0 THEN s ELSE Rewrite(RewriteAll(s, n - 1), DigraphRules[n])

\* what the normalization scan emits for position i
Emitted(s, i) ==
  IF s[i] \in vowels
    THEN IF i > 1 /\ s[i - 1] \in vowels THEN <<>> ELSE <<"V">>
  ELSE IF s[i] = "c"
    THEN IF i < Len(s) /\ s[i + 1] \in {"e", "i"} THEN <<"S">> ELSE <<"K">>
  ELSE IF i > 1 /\ s[i - 1] = s[i] THEN <<>> ELSE <<s[i]>>

Normalize(s) == Flatten([i \in 1..Len(s) |-> Emitted(s, i)], Len(s))

\* the reference starts from the lowercased word, as the knight scenario does
ReferenceKey(word) == Normalize(RewriteAll(toLowerCase(word), Len(DigraphRules)))

\* C25: for every alphabetic word, computePhoneticKey returns what the two-phase
\* reference returns (the 12 digraph rules one after another in the listed
\* order, then the single normalization scan), and the empty word gives the
\* empty key.
C25_KeyIsReferenceKey ==
  Keyed =>
    /\ isAlphabetic(call.word1) => call.key = ReferenceKey(call.word1)
    /\ call.word1 = <<>> => call.key = <<>>

\* a word where an earlier rule consumed the text of a later one: ough was
\* rewritten before gh, and the key differs from the word
C25_Witness ==
  /\ Keyed
  /\ isAlphabetic(call.word1)
  /\ \E i \in 1..Len(call.word1) : OccursAt(call.word1, <<"o","u","g","h">>, i)
  /\ \E i \in 1..Len(call.key) : call.key[i] = "O"
  /\ \A i \in 1..Len(call.key) : call.key[i] # "g"

(***************************************************************************)
(* Claims about the documented examples, checked under SpecExamples.       *)
(***************************************************************************)
\* C14, as stated: built from cat, hat, bat, dog with suffix length 3, query
\* "cat" returns the rhyme list hat, bat in that order.
C14_CatRhymesHatBat ==
  \A q \in 1..Len(queries) :
     (/\ wordlistText = CatWords
      /\ suffixLength = 3
      /\ Returned(q)
      /\ queries[q].inputWord = <<"c","a","t">>)
       => queries[q].rhymes = << <<"h","a","t">>, <<"b","a","t">> >>

\* C20, as stated: with a word list that contains blue, query "through" with
\* suffix length 3 returns a rhyme list that includes blue.
C20_ThroughFindsBlue ==
  \A q \in 1..Len(queries) :
     (/\ <<"b","l","u","e">> \in Range(wordlistText)
      /\ suffixLength = 3
      /\ Returned(q)
      /\ queries[q].inputWord = <<"t","h","r","o","u","g","h">>)
       => <<"b","l","u","e">> \in Range(queries[q].rhymes)

====
